---- MODULE Spec2Model ----
(***************************************************************************)
(* A model of galaxy.py: the Galaxy root object with its lazily read       *)
(* report, the Star and Fleet views built over it, attribute lookup on     *)
(* those views, and Star.distance.                                         *)
(*                                                                         *)
(* Python values are modelled as follows.  None is the empty sequence and  *)
(* a held object is a one-element sequence, so "x is None" is x = <<>>.    *)
(* The result of a call is a record whose field outcome is "ok" or the     *)
(* name of the exception that left the call.  A float is kept in units of  *)
(* one half (the float 1.5 is the integer 3); a square root that need not  *)
(* be rational is kept by its radicand.                                    *)
(***************************************************************************)
EXTENDS Integers, Sequences, FiniteSets, TLC

VARIABLES
    galaxies,     \* the Galaxy objects created so far, in creation order
    entities,     \* the Star and Fleet objects whose construction completed
    requests,     \* the calls made to request(), in order
    updateCalls,  \* how many times Galaxy.update_state has been entered
    last,         \* the call the caller made last, with what came back
    rep,          \* a report, as request() hands it back
    ent           \* a Star or Fleet view over part of a report

vars == <<galaxies, entities, requests, updateCalls, last, rep, ent>>

-----------------------------------------------------------------------------
(* Bounds of the model *)

MaxGalaxies == 2
MaxCalls == 3
MaxFleetId == 3

GameNumbers == {1, 2}
CookieJars == {"sid=alice"}
FleetIds == {ToString(i) : i \in 1..MaxFleetId}
StarIds == {0, 1}

None == <<>>
Some(v) == <<v>>

-----------------------------------------------------------------------------
(* Names *)

\* The names bound at module level in galaxy.py: the two imports and the
\* five classes.  A bare name used inside a method that is neither a local
\* nor one of these (nor a builtin) raises NameError when it is evaluated.
ModuleGlobals == {"math", "request", "Galaxy", "_HasGalaxy", "_HasData", "Fleet", "Star"}

Builtins == {"id", "float", "len", "range", "super", "getattr", "object"}

NameBound(name) == name \in ModuleGlobals \cup Builtins

\* The value of the builtin name id: a function object, which is the key of
\* no report.
BuiltinId == "<built-in function id>"

-----------------------------------------------------------------------------
(* Reports *)

\* The strings a report stores positions as, and what float() makes of
\* them, in units of one half.
Coords == {"0", "1", "3", "4", "-1.5"}

float(s) ==
    CASE s = "0" -> 0
      [] s = "1" -> 2
      [] s = "3" -> 6
      [] s = "4" -> 8
      [] s = "-1.5" -> -3

\* One entry of report.stars and of report.fleets, under the keys the
\* server uses.
StarData(uid, x, y, puid, v) ==
    [uid |-> uid, n |-> "Sol", puid |-> puid, x |-> x, y |-> y, v |-> v,
     st |-> 10, e |-> 2]

FleetData(uid, x, y, p) ==
    [uid |-> uid, n |-> "Armada", puid |-> 0, x |-> x, y |-> y,
     lx |-> "0", ly |-> "1", st |-> 25, p |-> p]

\* report.fleets is sparse: any subset of the fleet ids may be present.
FleetMaps ==
    {[k \in S |-> FleetData(k, "3", "4", <<>>)] : S \in SUBSET FleetIds}

\* report.stars is dense: indices 0..n-1.
DenseStars == [i \in StarIds |-> StarData(i, "0", IF i = 0 THEN "0" ELSE "3", i - 1, "1")]

\* Two reports that differ in every part that can differ.
ReportA ==
    [game_over |-> FALSE, started |-> TRUE, paused |-> FALSE,
     fleets |-> [k \in FleetIds |-> FleetData(k, "3", "4", <<>>)],
     stars |-> DenseStars]

ReportB ==
    [game_over |-> TRUE, started |-> TRUE, paused |-> TRUE,
     fleets |-> [k \in {} |-> FleetData(k, "3", "4", <<>>)],
     stars |-> [i \in StarIds |-> StarData(i, "4", "1", 0, "0")]]

\* The reports request() can hand back.
Reports ==
    [game_over : BOOLEAN, started : BOOLEAN, paused : BOOLEAN,
     fleets : FleetMaps, stars : {DenseStars}] \cup {ReportA, ReportB}

\* What a call of request() can do: hand back a report, or fail (None here).
Responses == {Some(ReportA), Some(ReportB), None}

-----------------------------------------------------------------------------
(* Galaxy *)

\* Galaxy.__init__: the two fields are stored; _report is the class default.
NewGalaxyObject(game_number, cookies) ==
    [game_number |-> game_number, cookies |-> cookies, _report |-> None]

\* Python truth of a held report: None and an empty mapping are false.
Truthy(held) == held # None /\ DOMAIN held[1] # {}

\* The data values bound at module level in galaxy.py: there are none.
ModuleData == [name \in {} |-> None]

\* Galaxy.update_state.  The arguments of request() are evaluated before the
\* call; game_number and cookies are bare names there (not self.game_number
\* and self.cookies), looked up at module level.  Neither is bound, so the
\* evaluation raises NameError: request() is not reached and _report is not
\* assigned.  resp is what request() would do if it were reached.
update_state(gal, resp) ==
    IF ~(NameBound("game_number") /\ NameBound("cookies"))
    THEN [outcome |-> "NameError", gal |-> gal, reqs |-> <<>>, calls |-> 1]
    ELSE LET args == [game_number |-> ModuleData["game_number"],
                      cookies |-> ModuleData["cookies"]] IN
         IF resp = None
         THEN [outcome |-> "RequestError", gal |-> gal, reqs |-> <<args>>,
               calls |-> 1]
         ELSE [outcome |-> "ok", gal |-> [gal EXCEPT !._report = resp],
               reqs |-> <<args>>, calls |-> 1]

\* Galaxy.report: runs update_state() when _report is false, then returns
\* _report.  An exception of update_state() leaves the property.
report(gal, resp) ==
    IF ~Truthy(gal._report)
    THEN LET u == update_state(gal, resp) IN
         IF u.outcome # "ok"
         THEN [outcome |-> u.outcome, value |-> None, gal |-> u.gal,
               reqs |-> u.reqs, calls |-> u.calls]
         ELSE [outcome |-> "ok", value |-> u.gal._report, gal |-> u.gal,
               reqs |-> u.reqs, calls |-> u.calls]
    ELSE [outcome |-> "ok", value |-> gal._report, gal |-> gal,
          reqs |-> <<>>, calls |-> 0]

-----------------------------------------------------------------------------
(* Construction of a Star or a Fleet *)

KwNames == {"galaxy", "game_number", "cookies"}

\* _HasGalaxy.__init__ as it would be with kwargs.pop(name, None) for the
\* two credential fields: a missing one becomes None instead of raising.
HasGalaxyInitDefaults(kw, gals) ==
    IF "game_number" \in DOMAIN kw \/ "cookies" \in DOMAIN kw
    THEN [outcome |-> "ok",
          gals |-> Append(gals, NewGalaxyObject(
                      IF "game_number" \in DOMAIN kw THEN kw["game_number"] ELSE None,
                      IF "cookies" \in DOMAIN kw THEN kw["cookies"] ELSE None)),
          galaxy |-> Len(gals) + 1]
    ELSE IF "galaxy" \notin DOMAIN kw
         THEN [outcome |-> "KeyError", gals |-> gals, galaxy |-> 0]
         ELSE [outcome |-> "ok", gals |-> gals, galaxy |-> kw["galaxy"]]

\* _HasGalaxy.__init__.  kw maps the keyword names the caller supplied to
\* their values; gals is the heap of Galaxy objects.  kwargs.pop(name)
\* without a default raises KeyError for a name that was not supplied.
HasGalaxyInit(kw, gals) ==
    IF "game_number" \in DOMAIN kw \/ "cookies" \in DOMAIN kw
    THEN IF "game_number" \notin DOMAIN kw
         THEN [outcome |-> "KeyError", gals |-> gals, galaxy |-> 0]
         ELSE IF "cookies" \notin DOMAIN kw
         THEN [outcome |-> "KeyError", gals |-> gals, galaxy |-> 0]
         ELSE [outcome |-> "ok",
               gals |-> Append(gals, NewGalaxyObject(kw["game_number"], kw["cookies"])),
               galaxy |-> Len(gals) + 1]
    ELSE IF "galaxy" \notin DOMAIN kw
         THEN [outcome |-> "KeyError", gals |-> gals, galaxy |-> 0]
         ELSE [outcome |-> "ok", gals |-> gals, galaxy |-> kw["galaxy"]]

\* The part of the report a kind of entity is a view of.
Collection(kind, r) == IF kind = "Star" THEN r.stars ELSE r.fleets

\* report.<collection>[id]: the entry, or KeyError when id is no key of it.
ViewOf(kind, id, r) ==
    IF id \in DOMAIN Collection(kind, r)
    THEN [outcome |-> "ok", data |-> Some(Collection(kind, r)[id])]
    ELSE [outcome |-> "KeyError", data |-> None]

\* Star.__init__ and Fleet.__init__ as they would be if the data view were
\* left to the first field access: the base initialiser and nothing else.
EntityInitLazy(kind, id, kw, gals, resp) ==
    LET h == HasGalaxyInit(kw, gals) IN
    [outcome |-> h.outcome, gals |-> h.gals, galaxy |-> h.galaxy,
     reqs |-> <<>>, calls |-> 0,
     entity |-> IF h.outcome = "ok"
                THEN Some([kind |-> kind, galaxy |-> h.galaxy, data |-> None])
                ELSE None]

\* Star.__init__ and Fleet.__init__: the base initialiser, then
\* self.data = self.galaxy.report.<collection>[id], read during construction.
EntityInit(kind, id, kw, gals, resp) ==
    LET h == HasGalaxyInit(kw, gals) IN
    IF h.outcome # "ok"
    THEN [outcome |-> h.outcome, gals |-> h.gals, galaxy |-> 0,
          reqs |-> <<>>, calls |-> 0, entity |-> None]
    ELSE LET r == report(h.gals[h.galaxy], resp)
             heap == [h.gals EXCEPT ![h.galaxy] = r.gal] IN
         IF r.outcome # "ok"
         THEN [outcome |-> r.outcome, gals |-> heap, galaxy |-> h.galaxy,
               reqs |-> r.reqs, calls |-> r.calls, entity |-> None]
         ELSE LET d == ViewOf(kind, id, r.value[1]) IN
         IF d.outcome # "ok"
         THEN [outcome |-> d.outcome, gals |-> heap, galaxy |-> h.galaxy,
               reqs |-> r.reqs, calls |-> r.calls, entity |-> None]
         ELSE [outcome |-> "ok", gals |-> heap, galaxy |-> h.galaxy,
               reqs |-> r.reqs, calls |-> r.calls,
               entity |-> Some([kind |-> kind, galaxy |-> h.galaxy,
                                data |-> d.data[1]])]

-----------------------------------------------------------------------------
(* Galaxy properties computed from the report *)

\* Galaxy.game_state as it would be with the paused test moved to the front.
game_state_paused_first(r) ==
    IF r.paused THEN "paused"
    ELSE IF r.game_over THEN "finished"
    ELSE IF ~r.started THEN "not started"
    ELSE "running"

\* Galaxy.game_state, r being what self.report returns: the first test that
\* succeeds decides.
game_state(r) ==
    IF r.game_over THEN "finished"
    ELSE IF ~r.started THEN "not started"
    ELSE IF r.paused THEN "paused"
    ELSE "running"

\* Galaxy.fleets, r being what self.report returns.  The comprehension
\* builds Fleet(id, galaxy=self) for every key: its first argument is the
\* builtin id, not the loop variable fleet_id, so Fleet.__init__ looks up
\* report.fleets[<builtin id>].  One failing construction leaves the
\* property; no key leaves it with the empty dict.
fleets(r) ==
    LET built == [fleet_id \in DOMAIN r.fleets |-> ViewOf("Fleet", BuiltinId, r)] IN
    IF \E fleet_id \in DOMAIN built : built[fleet_id].outcome # "ok"
    THEN [outcome |-> "KeyError", t |-> "exception", v |-> None]
    ELSE [outcome |-> "ok", t |-> "dict",
          v |-> [fleet_id \in DOMAIN built |->
                    [kind |-> "Fleet", galaxy |-> 1, data |-> built[fleet_id].data[1]]]]

\* galaxy.fleets[key]: the dict's own lookup, KeyError for a missing key.
fleets_getitem(r, key) ==
    LET f == fleets(r) IN
    IF f.outcome # "ok" THEN [outcome |-> f.outcome, entity |-> None]
    ELSE IF key \notin DOMAIN f.v THEN [outcome |-> "KeyError", entity |-> None]
    ELSE [outcome |-> "ok", entity |-> Some(f.v[key])]

-----------------------------------------------------------------------------
(* Star and Fleet: attribute lookup and distance *)

\* The class attribute aliases of each class.
aliases(kind) ==
    IF kind = "Fleet"
    THEN [owner |-> "player", name |-> "n", ships |-> "st", fleet_id |-> "uid"]
    ELSE [owner |-> "player", name |-> "n", star_id |-> "uid", economy |-> "e",
          carriers |-> "c", garrison |-> "g", industry |-> "i", resources |-> "r",
          natural_resources |-> "nr", natural |-> "nr", science |-> "s",
          ships |-> "st"]

\* The names each class defines with @property.
Properties(kind) ==
    IF kind = "Fleet" THEN {"waypoints", "player", "x", "y", "lx", "ly"}
    ELSE {"player", "visible", "x", "y"}

\* The body of each property.  A value carries its Python type in t.
PropertyValue(e, attr) ==
    CASE attr \in {"x", "y", "lx", "ly"} ->
            [outcome |-> "ok", t |-> "float", v |-> float(e.data[attr])]
      [] attr = "visible" ->
            [outcome |-> "ok", t |-> "bool", v |-> (e.data.v = "1")]
      [] attr = "player" /\ e.kind = "Star" ->
            IF e.data.puid = -1
            THEN [outcome |-> "ok", t |-> "NoneType", v |-> None]
            ELSE IF NameBound("Player")
            THEN [outcome |-> "ok", t |-> "Player", v |-> e.data.puid]
            ELSE [outcome |-> "NameError", t |-> "exception", v |-> None]
      [] attr = "player" /\ e.kind = "Fleet" ->
            IF NameBound("Player")
            THEN [outcome |-> "ok", t |-> "Player", v |-> e.data.puid]
            ELSE [outcome |-> "NameError", t |-> "exception", v |-> None]
      [] attr = "waypoints" ->
            IF e.data.p = <<>>
            THEN [outcome |-> "ok", t |-> "list", v |-> <<>>]
            ELSE IF NameBound("star_id")
            THEN [outcome |-> "ok", t |-> "list",
                  v |-> [i \in DOMAIN e.data.p |-> ModuleData["star_id"]]]
            ELSE [outcome |-> "NameError", t |-> "exception", v |-> None]

RECURSIVE getattr(_, _)

\* _HasData.__getattr__, which Python calls when the ordinary lookup finds
\* nothing.  Its first line tests the bare name aliases (not self.aliases),
\* which is bound nowhere: NameError, whatever attr is.
HasData_getattr(e, attr) ==
    IF ~NameBound("aliases")
    THEN [outcome |-> "NameError", t |-> "exception", v |-> None]
    ELSE IF attr \in DOMAIN ModuleData["aliases"]
    THEN getattr(e, ModuleData["aliases"][attr])
    ELSE IF attr \in DOMAIN e.data
    THEN [outcome |-> "ok", t |-> "value", v |-> e.data[attr]]
    ELSE [outcome |-> "KeyError", t |-> "exception", v |-> None]

\* entity.attr as Python resolves it: a property of the class, then the
\* instance's own attributes (galaxy, data), then the other attributes of
\* the class (aliases, and distance on a Star), then __getattr__.
getattr(e, attr) ==
    IF attr \in Properties(e.kind) THEN PropertyValue(e, attr)
    ELSE IF attr = "galaxy" THEN [outcome |-> "ok", t |-> "Galaxy", v |-> e.galaxy]
    ELSE IF attr = "data" THEN [outcome |-> "ok", t |-> "data", v |-> e.data]
    ELSE IF attr = "aliases" THEN [outcome |-> "ok", t |-> "dict", v |-> aliases(e.kind)]
    ELSE IF attr = "distance" /\ e.kind = "Star"
    THEN [outcome |-> "ok", t |-> "method", v |-> "distance"]
    ELSE HasData_getattr(e, attr)

\* math.ceil(math.sqrt(q) / 2) for an integer q >= 0: the least integer k
\* with k >= sqrt(q) / 2.
CeilHalfSqrt(q) ==
    CHOOSE k \in 0..q : 4 * k * k >= q /\ \A j \in 0..(k - 1) : 4 * j * j < q

\* math.floor(math.sqrt(q) / 2): the greatest integer k with k <= sqrt(q) / 2.
FloorHalfSqrt(q) ==
    CHOOSE k \in 0..q : 4 * k * k <= q /\ 4 * (k + 1) * (k + 1) > q

\* Star.distance as it would be with math.floor in place of math.ceil.
distance_floor(self, other, as_level) ==
    LET sx == getattr(self, "x")
        sy == getattr(self, "y")
        ox == getattr(other, "x")
        oy == getattr(other, "y")
        q == (sx.v - ox.v) * (sx.v - ox.v) + (sy.v - oy.v) * (sy.v - oy.v)
        level == FloorHalfSqrt(q) - 3
    IN  IF ~as_level THEN [outcome |-> "ok", t |-> "half_sqrt", v |-> q]
        ELSE IF level < 1 THEN [outcome |-> "ok", t |-> "number", v |-> 1]
        ELSE [outcome |-> "ok", t |-> "number", v |-> level]

\* Star.distance(other, as_level).  With positions in halves, q is four
\* times the squared distance; the raw distance sqrt(q) / 2 is kept as q.
distance(self, other, as_level) ==
    LET sx == getattr(self, "x")
        sy == getattr(self, "y")
        ox == getattr(other, "x")
        oy == getattr(other, "y")
        q == (sx.v - ox.v) * (sx.v - ox.v) + (sy.v - oy.v) * (sy.v - oy.v)
        level == CeilHalfSqrt(q) - 3
    IN  IF ~as_level THEN [outcome |-> "ok", t |-> "half_sqrt", v |-> q]
        ELSE IF level < 1 THEN [outcome |-> "ok", t |-> "number", v |-> 1]
        ELSE [outcome |-> "ok", t |-> "number", v |-> level]

-----------------------------------------------------------------------------
(* Program state machine *)

NoCall == [op |-> "none"]

Init ==
    /\ galaxies = <<>>
    /\ entities = <<>>
    /\ requests = <<>>
    /\ updateCalls = 0
    /\ last = NoCall
    /\ rep = None
    /\ ent = None

\* Galaxy(game_number, cookies)
NewGalaxy ==
    \E gn \in GameNumbers, ck \in CookieJars :
        /\ Len(galaxies) < MaxGalaxies
        /\ galaxies' = Append(galaxies, NewGalaxyObject(gn, ck))
        /\ last' = [op |-> "Galaxy", gal |-> Len(galaxies) + 1, outcome |-> "ok"]
        /\ UNCHANGED <<entities, requests, updateCalls, rep, ent>>

\* galaxy.update_state()
UpdateStateCall ==
    \E g \in DOMAIN galaxies, resp \in Responses :
        /\ updateCalls < MaxCalls
        /\ LET u == update_state(galaxies[g], resp) IN
            /\ galaxies' = [galaxies EXCEPT ![g] = u.gal]
            /\ requests' = requests \o u.reqs
            /\ updateCalls' = updateCalls + u.calls
            /\ last' = [op |-> "update_state", gal |-> g, outcome |-> u.outcome]
        /\ UNCHANGED <<entities, rep, ent>>

\* galaxy.report
ReportRead ==
    \E g \in DOMAIN galaxies, resp \in Responses :
        /\ updateCalls < MaxCalls
        /\ LET r == report(galaxies[g], resp) IN
            /\ galaxies' = [galaxies EXCEPT ![g] = r.gal]
            /\ requests' = requests \o r.reqs
            /\ updateCalls' = updateCalls + r.calls
            /\ last' = [op |-> "report", gal |-> g, outcome |-> r.outcome,
                        value |-> r.value]
        /\ UNCHANGED <<entities, rep, ent>>

IdsOf(kind) == IF kind = "Star" THEN StarIds ELSE FleetIds

\* The keyword arguments a caller can pass when n Galaxy objects exist: any
\* subset of the three keywords, galaxy= naming one of the n objects.
Kwargs(n) ==
    {[name \in names |-> full[name]] :
        full \in [galaxy : 1..n, game_number : GameNumbers, cookies : CookieJars],
        names \in SUBSET KwNames}
    \cup
    {[name \in names |-> full[name]] :
        full \in [game_number : GameNumbers, cookies : CookieJars],
        names \in SUBSET {"game_number", "cookies"}}

\* Star(id, **kw) and Fleet(id, **kw), with any subset of the three keywords
Construct ==
    \E kind \in {"Star", "Fleet"}, kw \in Kwargs(Len(galaxies)), resp \in Responses :
      \E id \in IdsOf(kind) :
        /\ updateCalls < MaxCalls
        /\ DOMAIN kw \cap {"game_number", "cookies"} # {} => Len(galaxies) < MaxGalaxies
        /\ LET c == EntityInit(kind, id, kw, galaxies, resp) IN
            /\ galaxies' = c.gals
            /\ requests' = requests \o c.reqs
            /\ updateCalls' = updateCalls + c.calls
            /\ entities' = entities \o c.entity
            /\ last' = [op |-> "construct", kind |-> kind, id |-> id,
                        kw |-> DOMAIN kw, gal |-> c.galaxy, outcome |-> c.outcome]
        /\ UNCHANGED <<rep, ent>>

Next == NewGalaxy \/ UpdateStateCall \/ ReportRead \/ Construct

Spec == Init /\ [][Next]_vars

-----------------------------------------------------------------------------
(* The properties of a Galaxy as functions of the report it reads *)

InitReport ==
    /\ galaxies = <<>>
    /\ entities = <<>>
    /\ requests = <<>>
    /\ updateCalls = 0
    /\ last = NoCall
    /\ rep \in {Some(r) : r \in Reports}
    /\ ent = None

\* galaxy.game_state
GameStateCall ==
    /\ last' = [op |-> "game_state", outcome |-> "ok", value |-> game_state(rep[1])]
    /\ UNCHANGED <<galaxies, entities, requests, updateCalls, rep, ent>>

\* galaxy.fleets
FleetsCall ==
    /\ last' = [op |-> "fleets", result |-> fleets(rep[1])]
    /\ UNCHANGED <<galaxies, entities, requests, updateCalls, rep, ent>>

\* galaxy.fleets[key]
FleetsIndex ==
    \E key \in FleetIds :
        /\ last' = [op |-> "fleets_getitem", key |-> key,
                    result |-> fleets_getitem(rep[1], key)]
        /\ UNCHANGED <<galaxies, entities, requests, updateCalls, rep, ent>>

NextReport == GameStateCall \/ FleetsCall \/ FleetsIndex

SpecReport == InitReport /\ [][NextReport]_vars

-----------------------------------------------------------------------------
(* Attribute lookup and distance as functions of the entity *)

StarViews ==
    {[kind |-> "Star", galaxy |-> 1, data |-> StarData(0, x, y, puid, v)] :
        x \in Coords, y \in Coords, puid \in {-1, 0}, v \in {"0", "1"}}

FleetViews ==
    {[kind |-> "Fleet", galaxy |-> 1, data |-> FleetData("1", x, y, p)] :
        x \in Coords, y \in Coords, p \in {<<>>, <<1>>}}

\* The stars a distance is measured to: one at every position.
OtherStars == {s \in StarViews : s.data.puid = -1 /\ s.data.v = "1"}

\* The names a caller asks an entity for.
AttrNames ==
    {"x", "y", "lx", "ly", "player", "visible", "waypoints", "owner", "name",
     "ships", "star_id", "fleet_id", "economy", "n", "st", "uid", "puid",
     "data", "galaxy", "aliases", "distance", "bogus"}

InitEntity ==
    /\ galaxies = <<>>
    /\ entities = <<>>
    /\ requests = <<>>
    /\ updateCalls = 0
    /\ last = NoCall
    /\ rep = None
    /\ ent \in {Some(e) : e \in StarViews \cup FleetViews}

\* entity.<attr>
GetattrCall ==
    \E attr \in AttrNames :
        /\ last' = [op |-> "getattr", attr |-> attr, result |-> getattr(ent[1], attr)]
        /\ UNCHANGED <<galaxies, entities, requests, updateCalls, rep, ent>>

\* star.distance(other, as_level)
DistanceCall ==
    \E other \in OtherStars, as_level \in BOOLEAN :
        /\ getattr(ent[1], "distance").outcome = "ok"
        /\ last' = [op |-> "distance", other |-> other, as_level |-> as_level,
                    result |-> distance(ent[1], other, as_level)]
        /\ UNCHANGED <<galaxies, entities, requests, updateCalls, rep, ent>>

NextEntity == GetattrCall \/ DistanceCall

SpecEntity == InitEntity /\ [][NextEntity]_vars

-----------------------------------------------------------------------------
(* Claims *)

\* The keyword sets the two documented ways of construction pass.
ValidKw(kw) == kw = {"galaxy"} \/ kw = {"game_number", "cookies"}

\* Neither galaxy= nor both credential fields.
IncompleteKw(kw) == kw \in {{}, {"game_number"}, {"cookies"}}

\* C1: a read of galaxy.report returns the report the Galaxy holds; it issues
\* one fetch when the Galaxy held no report before the read and none when it
\* held one, in which case the held report is returned as it was.
C1_ReadFetchesOnceThenReuses ==
    [][last'.op = "report" =>
        LET g == last'.gal IN
        /\ last'.outcome = "ok"
        /\ last'.value # None
        /\ last'.value = galaxies'[g]._report
        /\ IF galaxies[g]._report = None
           THEN Len(requests') = Len(requests) + 1
           ELSE /\ requests' = requests
                /\ last'.value = galaxies[g]._report]_vars

\* C2: when a read of galaxy.report or an update_state() has failed, the
\* Galaxy holds no report and the next read of galaxy.report on it issues a
\* new fetch.
C2_FailedFetchIsRetried ==
    [][(/\ last.op \in {"report", "update_state"}
        /\ last.outcome # "ok"
        /\ last'.op = "report"
        /\ last'.gal = last.gal)
       => /\ galaxies[last.gal]._report = None
          /\ Len(requests') = Len(requests) + 1]_vars

\* C3: an update_state() call issues exactly one fetch, for the Galaxy's own
\* game_number and cookies, and when it returns normally the Galaxy holds a
\* report.
C3_UpdateStateFetchesOwnAndReplaces ==
    [][last'.op = "update_state" =>
        LET g == last'.gal IN
        /\ Len(requests') = Len(requests) + 1
        /\ requests'[Len(requests')] =
              [game_number |-> galaxies[g].game_number, cookies |-> galaxies[g].cookies]
        /\ last'.outcome = "ok" => galaxies'[g]._report # None]_vars

\* C4: constructing a Star or Fleet in one of the two documented ways gives
\* an entity holding the view of its Galaxy's report as it is at
\* construction, and no later step changes an entity that exists.
C4_EntityKeepsSnapshot ==
    [][/\ \A i \in DOMAIN entities : i \in DOMAIN entities' /\ entities'[i] = entities[i]
       /\ (last'.op = "construct" /\ ValidKw(last'.kw)) =>
            /\ last'.outcome \in {"ok", "KeyError"}
            /\ last'.outcome = "ok" =>
                /\ Len(entities') = Len(entities) + 1
                /\ entities'[Len(entities')].data =
                      Collection(last'.kind, galaxies'[last'.gal]._report[1])[last'.id]]_vars

C9_IncompleteArgsFailAtConstruction ==
    [][(last'.op = "construct" /\ IncompleteKw(last'.kw)) =>
        /\ last'.outcome = "KeyError"
        /\ galaxies' = galaxies
        /\ entities' = entities
        /\ updateCalls' = updateCalls
        /\ requests' = requests]_vars

C9_Witness ==
    /\ last.op = "construct"
    /\ last.kw = {"cookies"}
    /\ last.outcome = "KeyError"
    /\ galaxies # <<>>

\* C6: galaxy.fleets is a mapping with exactly the keys of report.fleets,
\* the Fleet under key k being the view of report.fleets[k]; indexing it by
\* an id that report.fleets lacks fails with KeyError.
C6_FleetsMirrorsReport ==
    /\ last.op = "fleets" =>
        /\ last.result.outcome = "ok"
        /\ DOMAIN last.result.v = DOMAIN rep[1].fleets
        /\ \A k \in DOMAIN rep[1].fleets :
              /\ last.result.v[k].kind = "Fleet"
              /\ last.result.v[k].data = rep[1].fleets[k]
    /\ (last.op = "fleets_getitem" /\ last.key \notin DOMAIN rep[1].fleets) =>
        last.result.outcome = "KeyError"

\* C7: game_state is "finished" when game_over is set, whatever the other
\* two flags are; otherwise "not started" when started is not set; otherwise
\* "paused" when paused is set; otherwise "running".
C7_GameStatePrecedence ==
    last.op = "game_state" =>
        LET r == rep[1] IN
        /\ last.outcome = "ok"
        /\ r.game_over => last.value = "finished"
        /\ (~r.game_over /\ ~r.started) => last.value = "not started"
        /\ (~r.game_over /\ r.started /\ r.paused) => last.value = "paused"
        /\ (~r.game_over /\ r.started /\ ~r.paused) => last.value = "running"

C7_Witness ==
    /\ last.op = "game_state"
    /\ rep[1].game_over /\ rep[1].paused /\ ~rep[1].started
    /\ last.value = "finished"

\* C8: entity.attr is the accessor's value when attr is an accessor (x and y
\* give the float, not the string held in the data); otherwise, when attr is
\* an alias, what looking up its canonical name gives (a data value when the
\* canonical name is a data key); otherwise the data value under attr;
\* otherwise, for a name that is defined nowhere, an unknown-field error.
C8_LookupOrder ==
    last.op = "getattr" =>
        LET e == ent[1]
            attr == last.attr
            res == last.result
            table == aliases(e.kind)
            defined == Properties(e.kind) \cup {"galaxy", "data", "aliases", "distance"}
        IN
        /\ attr \in {"x", "y"} =>
              /\ res.outcome = "ok"
              /\ res.t = "float"
              /\ res.v = float(e.data[attr])
        /\ (attr \notin defined /\ attr \in DOMAIN table) =>
              /\ res = getattr(e, table[attr])
              /\ table[attr] \in (DOMAIN e.data) \ defined =>
                    /\ res.outcome = "ok"
                    /\ res.t = "value"
                    /\ res.v = e.data[table[attr]]
        /\ (attr \notin defined /\ attr \notin DOMAIN table /\ attr \in DOMAIN e.data) =>
              /\ res.outcome = "ok"
              /\ res.t = "value"
              /\ res.v = e.data[attr]
        /\ (attr \notin defined /\ attr \notin DOMAIN table /\ attr \notin DOMAIN e.data) =>
              res.outcome \in {"KeyError", "AttributeError"}

\* Four times the squared distance between two views, from the positions
\* their data holds.
FourDistSq(a, b) ==
    (float(a.data.x) - float(b.data.x)) * (float(a.data.x) - float(b.data.x))
    + (float(a.data.y) - float(b.data.y)) * (float(a.data.y) - float(b.data.y))

Max(a, b) == IF a >= b THEN a ELSE b

\* C10: with as_level the result is max(1, c - 3), c being the integer with
\* c - 1 < d <= c for the Euclidean distance d (so (0,0) to (3,4) gives 2
\* and (0,0) to (1,1) gives 1); without it the result is d itself.
C10_DistanceLevel ==
    last.op = "distance" =>
        LET q == FourDistSq(ent[1], last.other)
            res == last.result
            origin == ent[1].data.x = "0" /\ ent[1].data.y = "0"
        IN
        /\ res.outcome = "ok"
        /\ ~last.as_level => (res.t = "half_sqrt" /\ res.v = q)
        /\ last.as_level =>
              /\ res.t = "number"
              /\ \E c \in 0..q :
                    /\ 4 * c * c >= q
                    /\ c > 0 => 4 * (c - 1) * (c - 1) < q
                    /\ res.v = Max(1, c - 3)
              /\ (origin /\ last.other.data.x = "3" /\ last.other.data.y = "4") => res.v = 2
              /\ (origin /\ last.other.data.x = "1" /\ last.other.data.y = "1") => res.v = 1

C10_Witness ==
    /\ last.op = "distance"
    /\ last.as_level
    /\ ent[1].data.x = "-1.5" /\ ent[1].data.y = "-1.5"
    /\ last.other.data.x = "4" /\ last.other.data.y = "4"
    /\ last.result.v = 5

====
